---- MODULE Spec2Model ----
(***************************************************************************)
(* A model of the in-memory authentication-flow simulator engine           *)
(* (class AuthFlowSimulator).  The engine's SimulatorState is the variable *)
(* `state`; every public operation is one action that applies the whole   *)
(* handler to it.  Handlers are written as operators over a "machine"      *)
(* record m = [state |-> SimulatorState, nextId |-> next fresh id], so     *)
(* that the private helpers (emitEvent, createSession, ...) compose the    *)
(* way the methods call each other.                                        *)
(*                                                                         *)
(* Modelling conventions                                                   *)
(*  - The clock `now` counts seconds (the code counts milliseconds; the    *)
(*    30-day lifetime in milliseconds does not fit TLC's 32-bit integers). *)
(*    It advances only between operations.                                 *)
(*  - generateId() is modelled as a counter: every call yields an id that  *)
(*    was never returned before.                                           *)
(*  - A JavaScript value that a caller may pass as string, null or leave   *)
(*    out is a tagged record: Str(s), Null, Undefined, Bool(b).            *)
(*  - A JavaScript object literal with optional keys is a record whose     *)
(*    DOMAIN holds exactly the keys that are present.                      *)
(*  - Fields that no operation reads are left out: a user's name, avatar,  *)
(*    emailVerified, createdAt and lastLoginAt, a session's deviceInfo, an *)
(*    event's timestamp.                                                   *)
(*  - The seed users have pairwise different ids and emails, as the User   *)
(*    type documents them (unique id, email as the lookup key).            *)
(***************************************************************************)
EXTENDS Integers, Sequences, FiniteSets, TLC

\* state: this.state of the engine; nextId: the next result of generateId;
\* now: the clock; last: the most recent call; seen: every user that has been
\* in the user list; held: the arrays the last accessor call gave its caller.
VARIABLES state, nextId, now, last, seen, held

\* Calls in flight.  delayMs: options.delayMs; tasks: the calls of the
\* asynchronous operations in the order of their invocation, each with its
\* position (pc) and its local variables; timers: the calls waiting in
\* setTimeout, in firing order; queue: the microtask queue, the calls whose
\* awaited promise is settled, in the order they resume; emitters: for each
\* event of the log the call that emitted it.
VARIABLES delayMs, tasks, timers, queue, emitters

asyncVars == <<delayMs, tasks, timers, queue, emitters>>

vars == <<state, nextId, now, last, seen, held, delayMs, tasks, timers, queue,
          emitters>>

(***************************************************************************)
(* Bounds of the exploration.                                              *)
(***************************************************************************)
MaxEvents == 2
MaxSessionEvents == 5
MaxFailures == 1
MaxId == 10
MaxOAuthEvents == 6
MaxLogEvents == 3
MaxSnapshotEvents == 3
MaxHeldLen == 3
MaxEdits == 1
MaxReads == 2
MaxOAuthId == 20

(***************************************************************************)
(* JavaScript values.                                                      *)
(***************************************************************************)
Str(s) == [t |-> "string", v |-> s]
Bool(b) == [t |-> "boolean", b |-> b]
Null == [t |-> "null"]
Undefined == [t |-> "undefined"]
EmptyObj == [k \in {} |-> 0]

IsNullish(x) == x = Null \/ x = Undefined

ToBoolean(x) ==
  CASE x.t = "boolean" -> x.b
    [] x.t = "string" -> x.v # ""
    [] OTHER -> FALSE

(***************************************************************************)
(* Session lifetimes of createSession, in seconds.                         *)
(***************************************************************************)
RememberMeLifetime == 30 * 24 * 60 * 60
DefaultLifetime == 30 * 60

(***************************************************************************)
(* Users.                                                                  *)
(***************************************************************************)
createMockUser(id, email, twoFactorEnabled) ==
  [id |-> id, email |-> email, twoFactorEnabled |-> twoFactorEnabled]

generateId(m) == [m |-> [m EXCEPT !.nextId = @ + 1], id |-> m.nextId]

createDefaultUsers(firstId) ==
  << createMockUser(firstId, "john@example.com", TRUE),
     createMockUser(firstId + 1, "jane@example.com", FALSE),
     createMockUser(firstId + 2, "admin@example.com", TRUE) >>

MockUsers ==
  << [id |-> 1, email |-> "admin@example.com", twoFactorEnabled |-> TRUE],
     [id |-> 2, email |-> "user@example.com", twoFactorEnabled |-> FALSE] >>

DefaultConfig ==
  [enable2FA |-> TRUE, enablePasswordReset |-> TRUE, enableOAuth |-> TRUE,
   sessionTimeout |-> 30, maxLoginAttempts |-> 5, lockoutDuration |-> 15]

SeqToSet(s) == {s[i] : i \in 1..Len(s)}

\* Array.prototype.find / findIndex: `hits` is the set of indices whose
\* element passes the test; the result is the first of them, 0 when none.
FirstIndex(hits) ==
  IF hits = {} THEN 0 ELSE CHOOSE i \in hits : \A j \in hits : i <= j

\* Mutant of findUserByEmail: an unknown email falls back to the first user.
findUserByEmailOrFirst(st, email) ==
  LET i == FirstIndex({k \in DOMAIN st.users : Str(st.users[k].email) = email})
  IN IF i = 0 THEN st.users[1] ELSE st.users[i]

findUserByEmail(st, email) ==
  LET i == FirstIndex({k \in DOMAIN st.users : Str(st.users[k].email) = email})
  IN IF i = 0 THEN Undefined ELSE st.users[i]

findUserById(st, id) ==
  LET i == FirstIndex({k \in DOMAIN st.users : st.users[k].id = id})
  IN IF i = 0 THEN Undefined ELSE st.users[i]

(***************************************************************************)
(* The writes a call makes to the fields of this.state, in program order:  *)
(* "push" and "splice" change the array the field refers to in place,      *)
(* "assign" makes the field refer to a new value.                          *)
(***************************************************************************)
Write(m, field, kind) ==
  [m EXCEPT !.writes = Append(@, [field |-> field, kind |-> kind])]

\* Mutant of emitEvent: the event is put in front of the log.
emitEventInFront(m, type, success, data, error) ==
  LET event == [type |-> type, success |-> success, data |-> data]
               @@ (IF error # "" THEN [error |-> error] ELSE EmptyObj)
  IN Write([m EXCEPT !.state.events = <<event>> \o @], "events", "push")

(***************************************************************************)
(* emitEvent: append one event.  `data` is EmptyObj and `error` is "" when *)
(* the caller leaves the argument out (the code's `data || {}` and         *)
(* `error && {error}` treat both ways alike).                              *)
(***************************************************************************)
emitEvent(m, type, success, data, error) ==
  LET event == [type |-> type, success |-> success, data |-> data]
               @@ (IF error # "" THEN [error |-> error] ELSE EmptyObj)
  IN Write([m EXCEPT !.state.events = Append(@, event)], "events", "push")

\* password.length >= 6; reading .length of null or undefined throws.
PasswordThrows(password) == IsNullish(password)

\* Mutants of validatePassword: the bound off by one; no check at all.
validatePasswordOffByOne(user, password) == Len(password.v) > 6

validatePasswordAny(user, password) == TRUE

validatePassword(user, password) == Len(password.v) >= 6

\* Mutant of SessionLifetime: rememberMe is ignored.
SessionLifetimeFixed(rememberMe) == DefaultLifetime

\* rememberMe ? 30 days : 30 minutes, after the parameter default
\* `rememberMe = false` has replaced undefined.
SessionLifetime(rememberMe) ==
  LET remember == IF rememberMe = Undefined THEN FALSE ELSE ToBoolean(rememberMe)
  IN IF remember THEN RememberMeLifetime ELSE DefaultLifetime

\* Mutant of createSession: a user has one session, the new one replaces the
\* others.
createSessionSingle(m, user, rememberMe) ==
  LET g1 == generateId(m)
      g2 == generateId(g1.m)
      g3 == generateId(g2.m)
      session == [id |-> g1.id, userId |-> user.id, token |-> g2.id,
                  refreshToken |-> g3.id,
                  expiresAt |-> now + SessionLifetime(rememberMe),
                  createdAt |-> now]
      m1 == Write([g3.m EXCEPT !.state.sessions =
                                 Append(SelectSeq(@, LAMBDA s : s.userId # user.id),
                                        session)],
                  "sessions", "push")
  IN [m |-> emitEvent(m1, "session-created", TRUE,
                      [userId |-> user.id, sessionId |-> session.id], ""),
      session |-> session]

\* Mutant of createSession: no session-created event.
createSessionSilent(m, user, rememberMe) ==
  LET g1 == generateId(m)
      g2 == generateId(g1.m)
      g3 == generateId(g2.m)
      session == [id |-> g1.id, userId |-> user.id, token |-> g2.id,
                  refreshToken |-> g3.id,
                  expiresAt |-> now + SessionLifetime(rememberMe),
                  createdAt |-> now]
  IN [m |-> Write([g3.m EXCEPT !.state.sessions = Append(@, session)],
                  "sessions", "push"),
      session |-> session]

createSession(m, user, rememberMe) ==
  LET g1 == generateId(m)
      g2 == generateId(g1.m)
      g3 == generateId(g2.m)
      session == [id |-> g1.id, userId |-> user.id, token |-> g2.id,
                  refreshToken |-> g3.id,
                  expiresAt |-> now + SessionLifetime(rememberMe),
                  createdAt |-> now]
      m1 == Write([g3.m EXCEPT !.state.sessions = Append(@, session)],
                  "sessions", "push")
  IN [m |-> emitEvent(m1, "session-created", TRUE,
                      [userId |-> user.id, sessionId |-> session.id], ""),
      session |-> session]

Return(m, result) == [m |-> m, outcome |-> "returned", result |-> result]
Throw(m, error) == [m |-> m, outcome |-> "threw", result |-> [exception |-> error]]

\* Mutant of requires2FA: the second factor is never asked for.
requires2FANever(m, user) == FALSE

\* Mutant of requires2FA: the configuration can switch 2FA off.
requires2FAIfEnabled(m, user) == m.state.config.enable2FA /\ user.twoFactorEnabled

\* if (user.twoFactorEnabled)
requires2FA(m, user) == user.twoFactorEnabled

\* Mutant of simulateLogin: an account with config.maxLoginAttempts failed
\* logins in the log is locked.
simulateLoginLocking(m, credentials) ==
  LET user == findUserByEmail(m.state, credentials.email)
      failed == {i \in DOMAIN m.state.events :
                   /\ m.state.events[i].type = "login-failure"
                   /\ m.state.events[i].data.email = credentials.email}
  IN IF user = Undefined \/ PasswordThrows(credentials.password)
          \/ ~validatePassword(user, credentials.password)
     THEN Return(emitEvent(m, "login-failure", FALSE,
                           [email |-> credentials.email], "Invalid password"),
                 [success |-> FALSE, error |-> "Invalid credentials"])
     ELSE IF Cardinality(failed) >= m.state.config.maxLoginAttempts
     THEN Return(m, [success |-> FALSE, error |-> "Account locked"])
     ELSE IF requires2FA(m, user)
     THEN Return(emitEvent(m, "2fa-required", TRUE, [userId |-> user.id], ""),
                 [success |-> FALSE, requires2FA |-> TRUE, user |-> user,
                  error |-> "Two-factor authentication required"])
     ELSE LET c == createSession(m, user, credentials.rememberMe)
          IN Return(emitEvent(c.m, "login-success", TRUE,
                              [userId |-> user.id, sessionId |-> c.session.id], ""),
                    [success |-> TRUE, user |-> user, session |-> c.session])

\* Mutant of simulateLogin: an engine that is not running refuses the call.
simulateLoginRunningOnly(m, credentials) ==
  IF ~m.state.isRunning
  THEN Return(m, [success |-> FALSE, error |-> "Simulator is not running"])
  ELSE LET user == findUserByEmail(m.state, credentials.email)
       IN IF user = Undefined \/ PasswordThrows(credentials.password)
               \/ ~validatePassword(user, credentials.password)
               \/ requires2FA(m, user)
          THEN Return(m, [success |-> FALSE, error |-> "Invalid credentials"])
          ELSE LET c == createSession(m, user, credentials.rememberMe)
               IN Return(emitEvent(c.m, "login-success", TRUE,
                                   [userId |-> user.id,
                                    sessionId |-> c.session.id], ""),
                         [success |-> TRUE, user |-> user, session |-> c.session])

simulateLogin(m, credentials) ==
  LET user == findUserByEmail(m.state, credentials.email)
  IN IF user = Undefined
     THEN Return(emitEvent(m, "login-failure", FALSE,
                           [email |-> credentials.email], "User not found"),
                 [success |-> FALSE, error |-> "Invalid credentials"])
     ELSE IF PasswordThrows(credentials.password)
     THEN Throw(m, "TypeError")
     ELSE IF ~validatePassword(user, credentials.password)
     THEN Return(emitEvent(m, "login-failure", FALSE,
                           [userId |-> user.id, email |-> credentials.email],
                           "Invalid password"),
                 [success |-> FALSE, error |-> "Invalid credentials"])
     ELSE IF requires2FA(m, user)
     THEN Return(emitEvent(m, "2fa-required", TRUE, [userId |-> user.id], ""),
                 [success |-> FALSE, requires2FA |-> TRUE, user |-> user,
                  error |-> "Two-factor authentication required"])
     ELSE LET c == createSession(m, user, credentials.rememberMe)
          IN Return(emitEvent(c.m, "login-success", TRUE,
                              [userId |-> user.id, sessionId |-> c.session.id], ""),
                    [success |-> TRUE, user |-> user, session |-> c.session])

simulate2FACodeThrows(code) == IsNullish(code)

IsDigit(c) == c \in {"0", "1", "2", "3", "4", "5", "6", "7", "8", "9"}

\* String(x) as RegExp.prototype.test applies it to its argument.
StringOf(x) ==
  CASE x.t = "string" -> x.v
    [] x.t = "null" -> <<"n", "u", "l", "l">>
    [] OTHER -> <<"u", "n", "d", "e", "f", "i", "n", "e", "d">>

\* Mutant of validate2FACode: the pattern without its end anchor, /^\d{6}/.
validate2FACodeUnanchored(user, code) ==
  LET s == StringOf(code.code)
  IN Len(s) >= 6 /\ \A i \in 1..6 : IsDigit(s[i])

\* /^\d{6}$/.test(code.code)
validate2FACode(user, code) ==
  LET s == StringOf(code.code)
  IN Len(s) = 6 /\ \A i \in 1..Len(s) : IsDigit(s[i])

simulate2FA(m, userId, code) ==
  LET user == findUserById(m.state, userId)
  IN IF user = Undefined
     THEN Return(m, [success |-> FALSE, error |-> "User not found"])
     ELSE IF simulate2FACodeThrows(code)
     THEN Throw(m, "TypeError")
     ELSE IF ~validate2FACode(user, code)
     THEN Return(emitEvent(m, "2fa-failure", FALSE, [userId |-> userId],
                           "Invalid 2FA code"),
                 [success |-> FALSE, error |-> "Invalid 2FA code"])
     ELSE LET c == createSession(m, user, Bool(FALSE))
          IN Return(emitEvent(c.m, "2fa-success", TRUE,
                              [userId |-> userId, sessionId |-> c.session.id], ""),
                    [success |-> TRUE, user |-> user, session |-> c.session])

\* Mutant of simulatePasswordResetRequest: the token of an existing account
\* is handed back to the caller.
simulatePasswordResetRequestLeaky(m, request) ==
  LET user == findUserByEmail(m.state, request.email)
  IN IF user = Undefined
     THEN Return(emitEvent(m, "password-reset-requested", TRUE,
                           [email |-> request.email], ""),
                 [success |-> TRUE])
     ELSE LET g == generateId(m)
          IN Return(emitEvent(g.m, "password-reset-requested", TRUE,
                              [userId |-> user.id, resetToken |-> g.id], ""),
                    [success |-> TRUE, resetToken |-> g.id])

simulatePasswordResetRequest(m, request) ==
  LET user == findUserByEmail(m.state, request.email)
  IN IF user = Undefined
     THEN Return(emitEvent(m, "password-reset-requested", TRUE,
                           [email |-> request.email], ""),
                 [success |-> TRUE])
     ELSE LET g == generateId(m)
          IN Return(emitEvent(g.m, "password-reset-requested", TRUE,
                              [userId |-> user.id, resetToken |-> g.id], ""),
                    [success |-> TRUE])

\* The string generateId returned as its id-th result, as a JavaScript value.
IdString(id) == [t |-> "string", id |-> id]

\* Mutant of simulatePasswordResetConfirm: only a token that a reset request
\* generated is accepted.
simulatePasswordResetConfirmChecked(m, confirm) ==
  IF \E i \in DOMAIN m.state.events :
       /\ "resetToken" \in DOMAIN m.state.events[i].data
       /\ IdString(m.state.events[i].data.resetToken) = confirm.token
  THEN Return(emitEvent(m, "password-reset-completed", TRUE,
                        [token |-> confirm.token], ""),
              [success |-> TRUE])
  ELSE Return(m, [success |-> FALSE, error |-> "Invalid token"])

simulatePasswordResetConfirm(m, confirm) ==
  Return(emitEvent(m, "password-reset-completed", TRUE,
                   [token |-> confirm.token], ""),
         [success |-> TRUE])

\* `oauth-${callback.provider}@example.com`
OAuthEmail(provider) ==
  CASE provider = "google" -> "oauth-google@example.com"
    [] provider = "github" -> "oauth-github@example.com"
    [] OTHER -> "oauth-undefined@example.com"

\* Mutant of findOrCreateOAuthUser: the created user replaces the user list.
findOrCreateOAuthUserReplacing(m, callback) ==
  LET email == OAuthEmail(callback.provider)
      user == findUserByEmail(m.state, Str(email))
  IN IF user = Undefined
     THEN LET g == generateId(m)
              created == createMockUser(g.id, email, FALSE)
          IN [m |-> Write([g.m EXCEPT !.state.users = <<created>>],
                          "users", "assign"),
              user |-> created]
     ELSE [m |-> m, user |-> user]

\* Mutant of findOrCreateOAuthUser: a user is created at every callback.
findOrCreateOAuthUserAlways(m, callback) ==
  LET g == generateId(m)
      created == createMockUser(g.id, OAuthEmail(callback.provider), FALSE)
  IN [m |-> Write([g.m EXCEPT !.state.users = Append(@, created)],
                  "users", "push"),
      user |-> created]

findOrCreateOAuthUser(m, callback) ==
  LET email == OAuthEmail(callback.provider)
      user == findUserByEmail(m.state, Str(email))
  IN IF user = Undefined
     THEN LET g == generateId(m)
              created == createMockUser(g.id, email, FALSE)
          IN [m |-> Write([g.m EXCEPT !.state.users = Append(@, created)],
                          "users", "push"),
              user |-> created]
     ELSE [m |-> m, user |-> user]

\* Mutant of simulateOAuthCallback: the state nonce is validated.
simulateOAuthCallbackStateChecked(m, callback) ==
  IF callback.state # Str("state")
  THEN Return(m, [success |-> FALSE, error |-> "Invalid state"])
  ELSE LET f == findOrCreateOAuthUser(m, callback)
           c == createSession(f.m, f.user, Bool(FALSE))
       IN Return(emitEvent(c.m, "oauth-callback", TRUE,
                           [userId |-> f.user.id, sessionId |-> c.session.id,
                            provider |-> callback.provider], ""),
                 [success |-> TRUE, user |-> f.user, session |-> c.session])

simulateOAuthCallback(m, callback) ==
  LET f == findOrCreateOAuthUser(m, callback)
      c == createSession(f.m, f.user, Bool(FALSE))
  IN Return(emitEvent(c.m, "oauth-callback", TRUE,
                      [userId |-> f.user.id, sessionId |-> c.session.id,
                       provider |-> callback.provider], ""),
            [success |-> TRUE, user |-> f.user, session |-> c.session])

\* Mutants of RemoveAt: nothing is removed; the first element is removed.
RemoveAtNothing(s, i) == s

RemoveAtFirst(s, i) == Tail(s)

\* Array.prototype.splice(index, 1)
RemoveAt(s, i) == SubSeq(s, 1, i - 1) \o SubSeq(s, i + 1, Len(s))

\* Mutant of simulateLogout: an expired session is not logged out.
simulateLogoutUnexpired(m, sessionId) ==
  LET sessionIndex == FirstIndex({k \in DOMAIN m.state.sessions : m.state.sessions[k].id = sessionId})
  IN IF sessionIndex = 0
     THEN Return(m, [success |-> FALSE, error |-> "Session not found"])
     ELSE IF m.state.sessions[sessionIndex].expiresAt < now
     THEN Return(m, [success |-> FALSE, error |-> "Session expired"])
     ELSE Return(emitEvent(Write([m EXCEPT !.state.sessions =
                                              RemoveAt(@, sessionIndex)],
                                 "sessions", "splice"),
                           "logout", TRUE, [sessionId |-> sessionId], ""),
                 [success |-> TRUE])

\* Mutant of simulateLogout: a logout of an unknown session ends every
\* session.
simulateLogoutClearing(m, sessionId) ==
  LET sessionIndex == FirstIndex({k \in DOMAIN m.state.sessions : m.state.sessions[k].id = sessionId})
  IN IF sessionIndex = 0
     THEN Return(Write([m EXCEPT !.state.sessions = <<>>], "sessions", "assign"),
                 [success |-> FALSE, error |-> "Session not found"])
     ELSE Return(emitEvent(Write([m EXCEPT !.state.sessions =
                                              RemoveAt(@, sessionIndex)],
                                 "sessions", "splice"),
                           "logout", TRUE, [sessionId |-> sessionId], ""),
                 [success |-> TRUE])

\* Mutant of simulateLogout: the event is emitted before the session is
\* removed.
simulateLogoutEmitFirst(m, sessionId) ==
  LET sessionIndex == FirstIndex({k \in DOMAIN m.state.sessions : m.state.sessions[k].id = sessionId})
  IN IF sessionIndex = 0
     THEN Return(m, [success |-> FALSE, error |-> "Session not found"])
     ELSE LET e == emitEvent(m, "logout", TRUE, [sessionId |-> sessionId], "")
          IN Return(Write([e EXCEPT !.state.sessions = RemoveAt(@, sessionIndex)],
                          "sessions", "splice"),
                    [success |-> TRUE])

simulateLogout(m, sessionId) ==
  LET sessionIndex == FirstIndex({k \in DOMAIN m.state.sessions : m.state.sessions[k].id = sessionId})
  IN IF sessionIndex = 0
     THEN Return(m, [success |-> FALSE, error |-> "Session not found"])
     ELSE Return(emitEvent(Write([m EXCEPT !.state.sessions =
                                              RemoveAt(@, sessionIndex)],
                                 "sessions", "splice"),
                           "logout", TRUE, [sessionId |-> sessionId], ""),
                 [success |-> TRUE])

\* Mutant of WithoutSession: every session is dropped.
WithoutSessionAll(sessions, sessionId) == <<>>

\* sessions.filter((s) => s.id !== sessionId)
WithoutSession(sessions, sessionId) ==
  LET Other(s) == s.id # sessionId
  IN SelectSeq(sessions, Other)

\* Mutant of checkSession: an unknown session id leaves no event.
checkSessionSilent(m, sessionId) ==
  LET i == FirstIndex({k \in DOMAIN m.state.sessions : m.state.sessions[k].id = sessionId})
  IN IF i = 0
     THEN Return(m, [success |-> FALSE, error |-> "Session not found"])
     ELSE LET session == m.state.sessions[i]
          IN IF session.expiresAt < now
             THEN Return(emitEvent(Write([m EXCEPT !.state.sessions =
                                                      WithoutSession(@, sessionId)],
                                         "sessions", "assign"),
                                   "session-expired", FALSE,
                                   [sessionId |-> sessionId], "Session expired"),
                         [success |-> FALSE, error |-> "Session expired"])
             ELSE LET user == findUserById(m.state, session.userId)
                  IN IF user = Undefined
                     THEN Return(m, [success |-> FALSE, error |-> "User not found"])
                     ELSE Return(m, [success |-> TRUE, user |-> user,
                                     session |-> session])

checkSession(m, sessionId) ==
  LET i == FirstIndex({k \in DOMAIN m.state.sessions : m.state.sessions[k].id = sessionId})
  IN IF i = 0
     THEN Return(emitEvent(m, "session-expired", FALSE, [sessionId |-> sessionId],
                           "Session not found"),
                 [success |-> FALSE, error |-> "Session not found"])
     ELSE LET session == m.state.sessions[i]
          IN IF session.expiresAt < now
             THEN Return(emitEvent(Write([m EXCEPT !.state.sessions =
                                                      WithoutSession(@, sessionId)],
                                         "sessions", "assign"),
                                   "session-expired", FALSE,
                                   [sessionId |-> sessionId], "Session expired"),
                         [success |-> FALSE, error |-> "Session expired"])
             ELSE LET user == findUserById(m.state, session.userId)
                  IN IF user = Undefined
                     THEN Return(m, [success |-> FALSE, error |-> "User not found"])
                     ELSE Return(m, [success |-> TRUE, user |-> user,
                                     session |-> session])

\* Mutant of start: a start of a running engine does nothing.
startOnce(m) ==
  IF m.state.isRunning THEN Return(m, Undefined)
  ELSE Return(emitEvent(Write([m EXCEPT !.state.isRunning = TRUE],
                              "isRunning", "assign"),
                        "login-attempt", TRUE, EmptyObj, ""),
              Undefined)

start(m) ==
  Return(emitEvent(Write([m EXCEPT !.state.isRunning = TRUE],
                         "isRunning", "assign"),
                   "login-attempt", TRUE, EmptyObj, ""),
         Undefined)

\* Mutant of stop: stopping ends the sessions.
stopEndingSessions(m) ==
  Return(emitEvent(Write(Write([m EXCEPT !.state.isRunning = FALSE,
                                         !.state.sessions = <<>>],
                               "isRunning", "assign"),
                         "sessions", "assign"),
                   "logout", TRUE, EmptyObj, ""),
         Undefined)

stop(m) ==
  Return(emitEvent(Write([m EXCEPT !.state.isRunning = FALSE],
                         "isRunning", "assign"),
                   "logout", TRUE, EmptyObj, ""),
         Undefined)

\* Mutant of reset: the users of the engine are kept.
resetKeepingUsers(m) ==
  LET m2 == Write([m EXCEPT !.state.sessions = <<>>], "sessions", "assign")
      m3 == Write([m2 EXCEPT !.state.events = <<>>], "events", "assign")
  IN Return(m3, Undefined)

reset(m) ==
  LET m1 == Write([m EXCEPT !.state.users = createDefaultUsers(m.nextId),
                            !.nextId = @ + 3],
                  "users", "assign")
      m2 == Write([m1 EXCEPT !.state.sessions = <<>>], "sessions", "assign")
      m3 == Write([m2 EXCEPT !.state.events = <<>>], "events", "assign")
  IN Return(m3, Undefined)

(***************************************************************************)
(* The accessors.  A returned array is [live, items]: live tells whether   *)
(* it is the very array object a field of this.state refers to (so that a  *)
(* change of either is a change of both) or an array of its own.           *)
(* getState spreads this.state into a new object, which copies the fields' *)
(* values, array references included; getEvents spreads the array itself.  *)
(***************************************************************************)
ArrayFields == {"users", "sessions", "events"}

getState(m) ==
  Return(m, [users |-> [live |-> TRUE, items |-> m.state.users],
             sessions |-> [live |-> TRUE, items |-> m.state.sessions],
             events |-> [live |-> TRUE, items |-> m.state.events],
             config |-> m.state.config,
             isRunning |-> m.state.isRunning])

\* Mutant of getEvents: the live array is handed out.
getEventsLive(m) == Return(m, [live |-> TRUE, items |-> m.state.events])

getEvents(m) == Return(m, [live |-> FALSE, items |-> m.state.events])

(***************************************************************************)
(* Inputs of the calls.  The strings are chosen at both sides of every     *)
(* test the handlers make: a password of length 5, 6 and 7, the empty      *)
(* string, null and a missing field; a code of five, six and seven digits, *)
(* six characters that are not all digits, and so on.                      *)
(***************************************************************************)
Digits7 == <<"1", "2", "3", "4", "5", "6", "7">>
Digits6 == SubSeq(Digits7, 1, 6)
Digits5 == SubSeq(Digits7, 1, 5)

UserEmails == {Str(u.email) : u \in SeqToSet(state.users)}

EmailInputs == UserEmails \cup {Str("nobody@x.com"), Str(""), Null, Undefined}

ValidPassword == Str("abcdef")

PasswordInputs ==
  {Str(""), Str("abcde"), ValidPassword, Str("abcdefg"), Null, Undefined}

RememberMeInputs == {Bool(TRUE), Undefined}

ValidCode == [code |-> Str(Digits6)]

CodeInputs ==
  {ValidCode, [code |-> Str(Digits5)], [code |-> Str(Digits7)],
   [code |-> Str(<<"1", "2", "3", "4", "5", "a">>)],
   [code |-> Str(<<"1", "2", "3", "4", "5", "6", "\n">>)],
   [code |-> Str(<<>>)], [code |-> Null], [code |-> Undefined], Null}

EventsOfType(type) == {e \in SeqToSet(state.events) : e.type = type}

UserIds == {u.id : u \in SeqToSet(state.users)}

UserIdInputs == UserIds \cup {0}

\* The ids of the sessions that are or were active, and one that never was.
SessionIdInputs ==
  {s.id : s \in SeqToSet(state.sessions)}
    \cup {e.data.sessionId : e \in EventsOfType("session-created")}
    \cup {0}

ProviderInputs == {"google", "github"}

StateInputs == {Str("state"), Str("invalid-state")}

OAuthCodeInputs == {Str("code"), Str("")}

\* A token no reset request generated, the empty token, and the tokens in the
\* password-reset-requested events of the log.
TokenInputs ==
  {Str("invalid-token"), Str("")}
    \cup {IdString(e.data.resetToken) :
            e \in {x \in EventsOfType("password-reset-requested") :
                     "resetToken" \in DOMAIN x.data}}

Machine == [state |-> state, nextId |-> nextId, writes |-> <<>>]

(***************************************************************************)
(* The actions: one call of a public operation, its delay included, that   *)
(* runs while no other call is in flight.  A call is explored while the    *)
(* event log is shorter than cap.events, when the log it leaves is no      *)
(* longer than cap.events and holds at most cap.failures events of calls   *)
(* that returned success = false, and the call generates no id beyond      *)
(* cap.ids.                                                                *)
(***************************************************************************)
FailureTypes == {"login-failure", "2fa-required", "2fa-failure", "session-expired"}

Failures(events) ==
  Cardinality({i \in 1..Len(events) : events[i].type \in FailureTypes})

Within(cap, r) ==
  /\ Len(state.events) < cap.events
  /\ Len(r.m.state.events) <= cap.events
  /\ Failures(r.m.state.events) <= cap.failures
  /\ r.m.nextId <= cap.ids + 1

\* The fields a call assigned, and the arrays a caller holds after the call:
\* an array that is live follows the engine's pushes and splices, and stops
\* being live, keeping its items, once the call assigns a new array to its
\* field (no call changes an array in place before it replaces it).
Assigned(writes) ==
  {writes[i].field : i \in {j \in DOMAIN writes : writes[j].kind = "assign"}}

HeldAfter(h, m) ==
  [h EXCEPT !.arrays =
     [f \in DOMAIN h.arrays |->
        IF ~h.arrays[f].live THEN h.arrays[f]
        ELSE IF f \in Assigned(m.writes)
             THEN [live |-> FALSE, items |-> h.arrays[f].items]
             ELSE [live |-> TRUE, items |-> m.state[f]]]]

Record(op, args, r) ==
  [op |-> op, args |-> args, outcome |-> r.outcome, result |-> r.result,
   pre |-> state, at |-> now, writes |-> r.m.writes, seen |-> seen,
   held |-> held]

Apply(cap, op, args, r) ==
  /\ Within(cap, r)
  /\ state' = r.m.state
  /\ nextId' = r.m.nextId
  /\ last' = Record(op, args, r)
  /\ seen' = seen \cup SeqToSet(r.m.state.users)
  /\ held' = HeldAfter(held, r.m)
  /\ UNCHANGED <<now, asyncVars>>

StartCall(cap) == Apply(cap, "start", EmptyObj, start(Machine))

StopCall(cap) == Apply(cap, "stop", EmptyObj, stop(Machine))

LoginCall(cap, emails, passwords, rememberMes) ==
  \E email \in emails, password \in passwords, rememberMe \in rememberMes :
    LET credentials == [email |-> email, password |-> password,
                        rememberMe |-> rememberMe]
    IN Apply(cap, "simulateLogin", credentials, simulateLogin(Machine, credentials))

TwoFactorCall(cap, userIds, codes) ==
  \E userId \in userIds, code \in codes :
    Apply(cap, "simulate2FA", [userId |-> userId, code |-> code],
           simulate2FA(Machine, userId, code))

PasswordResetRequestCall(cap, emails) ==
  \E email \in emails :
    Apply(cap, "simulatePasswordResetRequest", [email |-> email],
           simulatePasswordResetRequest(Machine, [email |-> email]))

PasswordResetConfirmCall(cap, tokens) ==
  \E token \in tokens :
    Apply(cap, "simulatePasswordResetConfirm", [token |-> token],
           simulatePasswordResetConfirm(Machine, [token |-> token]))

OAuthCallbackCall(cap, providers, codes, states) ==
  \E provider \in providers, code \in codes, st \in states :
    LET callback == [code |-> code, state |-> st, provider |-> provider]
    IN Apply(cap, "simulateOAuthCallback", callback,
                simulateOAuthCallback(Machine, callback))

LogoutCall(cap, sessionIds) ==
  \E sessionId \in sessionIds :
    Apply(cap, "simulateLogout", [sessionId |-> sessionId],
           simulateLogout(Machine, sessionId))

CheckSessionCall(cap, sessionIds) ==
  \E sessionId \in sessionIds :
    Apply(cap, "checkSession", [sessionId |-> sessionId],
           checkSession(Machine, sessionId))

ResetCall(cap) == Apply(cap, "reset", EmptyObj, reset(Machine))

\* The operations that take the artificial delay, called with args on an
\* engine m.
DelayedOps ==
  {"simulateLogin", "simulate2FA", "simulatePasswordResetRequest",
   "simulatePasswordResetConfirm", "simulateOAuthCallback", "simulateLogout",
   "checkSession"}

Call(m, op, args) ==
  CASE op = "simulateLogin" -> simulateLogin(m, args)
    [] op = "simulate2FA" -> simulate2FA(m, args.userId, args.code)
    [] op = "simulatePasswordResetRequest" -> simulatePasswordResetRequest(m, args)
    [] op = "simulatePasswordResetConfirm" -> simulatePasswordResetConfirm(m, args)
    [] op = "simulateOAuthCallback" -> simulateOAuthCallback(m, args)
    [] op = "simulateLogout" -> simulateLogout(m, args.sessionId)
    [] op = "checkSession" -> checkSession(m, args.sessionId)

\* The arguments the calls of op are tried with in the present state.
ArgsOf(op) ==
  CASE op = "simulateLogin" ->
         {[email |-> e, password |-> p, rememberMe |-> r] :
            e \in UserEmails \cup {Str("nobody@x.com")},
            p \in {Str("abcde"), ValidPassword, Null}, r \in RememberMeInputs}
    [] op = "simulate2FA" ->
         {[userId |-> u, code |-> c] :
            u \in UserIdInputs, c \in {ValidCode, [code |-> Str(Digits5)], Null}}
    [] op = "simulatePasswordResetRequest" -> {[email |-> e] : e \in EmailInputs}
    [] op = "simulatePasswordResetConfirm" -> {[token |-> t] : t \in TokenInputs}
    [] op = "simulateOAuthCallback" ->
         {[code |-> c, state |-> st, provider |-> p] :
            c \in OAuthCodeInputs, st \in StateInputs, p \in ProviderInputs}
    [] op = "simulateLogout" -> {[sessionId |-> i] : i \in SessionIdInputs}
    [] op = "checkSession" -> {[sessionId |-> i] : i \in SessionIdInputs}

\* A call of an accessor: the caller now holds the arrays it returned.  At
\* most MaxReads such calls are explored in one run.
Hold(op, r, arrays) ==
  /\ held.reads < MaxReads
  /\ state' = r.m.state
  /\ nextId' = r.m.nextId
  /\ last' = Record(op, EmptyObj, r)
  /\ seen' = seen \cup SeqToSet(r.m.state.users)
  /\ held' = [from |-> op, arrays |-> arrays, edits |-> 0,
              reads |-> held.reads + 1]
  /\ UNCHANGED <<now, asyncVars>>

GetStateCall ==
  LET r == getState(Machine)
  IN Hold("getState", r, [f \in ArrayFields |-> r.result[f]])

GetEventsCall ==
  LET r == getEvents(Machine)
  IN Hold("getEvents", r, [events |-> r.result])

\* What a caller can put into an array it holds.
Forged(f) ==
  CASE f = "users" -> createMockUser(0, "forged@example.com", FALSE)
    [] f = "sessions" -> [id |-> 0, userId |-> 0, token |-> 0, refreshToken |-> 0,
                          expiresAt |-> 0, createdAt |-> 0]
    [] f = "events" -> [type |-> "forged", success |-> TRUE, data |-> EmptyObj]

\* The caller changes an array it holds to `items`: an array that is live is
\* the engine's array, so the field of this.state changes with it.  A caller
\* makes at most MaxEdits changes to the arrays of one accessor call.
CallerEdit(op, f, items) ==
  /\ held.edits < MaxEdits
  /\ held' = [held EXCEPT !.arrays[f].items = items, !.edits = @ + 1]
  /\ state' = IF held.arrays[f].live THEN [state EXCEPT ![f] = items] ELSE state
  /\ seen' = seen \cup SeqToSet(state'.users)
  /\ last' = [op |-> op, args |-> [field |-> f], outcome |-> "returned",
              result |-> Undefined, pre |-> state, at |-> now, writes |-> <<>>,
              seen |-> seen, held |-> held]
  /\ UNCHANGED <<nextId, now, asyncVars>>

\* array.push(x) on a held array.
CallerPush ==
  \E f \in DOMAIN held.arrays :
    /\ Len(held.arrays[f].items) < MaxHeldLen
    /\ CallerEdit("push", f, Append(held.arrays[f].items, Forged(f)))

\* array.pop() on a held array.
CallerPop ==
  \E f \in DOMAIN held.arrays :
    /\ held.arrays[f].items # <<>>
    /\ CallerEdit("pop", f, SubSeq(held.arrays[f].items, 1,
                                     Len(held.arrays[f].items) - 1))

\* Time passes between calls.  Only the instants at which some active session
\* changes from unexpired to expired matter to the engine (expiresAt itself is
\* the last unexpired instant), so the clock moves from one of them to a later one.
Instants == UNION {{s.expiresAt, s.expiresAt + 1} : s \in SeqToSet(state.sessions)}

Tick ==
  \E t \in Instants :
    /\ t > now
    /\ now' = t
    /\ UNCHANGED <<state, nextId, last, seen, held, asyncVars>>

\* { ...defaults, ...options.config }: the fields the caller gives replace
\* the defaults.
ConstructedWith(users, firstId, config) ==
  /\ now = 0
  /\ last = [op |-> "constructor"]
  /\ state = [users |-> users, sessions |-> <<>>, events |-> <<>>,
              config |-> config @@ DefaultConfig, isRunning |-> FALSE]
  /\ nextId = firstId
  /\ seen = SeqToSet(users)
  /\ held = [from |-> "none", arrays |-> EmptyObj, edits |-> 0, reads |-> 0]
  /\ tasks = <<>>
  /\ timers = <<>>
  /\ queue = <<>>
  /\ emitters = <<>>

Constructed(users, firstId) == ConstructedWith(users, firstId, EmptyObj)

\* options.delayMs: 100 unless the caller sets it.
DefaultDelayMs == 100

\* new AuthFlowSimulator(options), without and with options.mockUsers.

Init ==
  /\ Constructed(createDefaultUsers(1), 4) \/ Constructed(MockUsers, 3)
  /\ delayMs = DefaultDelayMs

(***************************************************************************)
(* Spec: every operation, every input, a short event log.                  *)
(***************************************************************************)
SpecCap == [events |-> MaxEvents, failures |-> MaxEvents, ids |-> MaxId]

Start == StartCall(SpecCap)
Stop == StopCall(SpecCap)
Login == LoginCall(SpecCap, EmailInputs, PasswordInputs, RememberMeInputs)
TwoFactor == TwoFactorCall(SpecCap, UserIdInputs, CodeInputs)
PasswordResetRequest == PasswordResetRequestCall(SpecCap, EmailInputs)
PasswordResetConfirm == PasswordResetConfirmCall(SpecCap, TokenInputs)
OAuthCallback ==
  OAuthCallbackCall(SpecCap, ProviderInputs, OAuthCodeInputs, StateInputs)
Logout == LogoutCall(SpecCap, SessionIdInputs)
CheckSession == CheckSessionCall(SpecCap, SessionIdInputs)
Reset == ResetCall(SpecCap)

Next ==
  \/ Start
  \/ Stop
  \/ Login
  \/ TwoFactor
  \/ PasswordResetRequest
  \/ PasswordResetConfirm
  \/ OAuthCallback
  \/ Logout
  \/ CheckSession
  \/ Reset
  \/ Tick

Spec == Init /\ [][Next]_vars

(***************************************************************************)
(* SpecSession: the life of sessions over a longer event log.  Sessions    *)
(* are created by calls with valid credentials and codes.                  *)
(***************************************************************************)
SessionCap ==
  [events |-> MaxSessionEvents, failures |-> MaxFailures, ids |-> MaxId]

SessionLogin ==
  LoginCall(SessionCap, UserEmails \cup {Str("nobody@x.com")},
            {Str("abcde"), ValidPassword, Str("abcdefg"), Null},
            {Bool(TRUE), Bool(FALSE), Undefined})
SessionTwoFactor == TwoFactorCall(SessionCap, UserIds, {ValidCode})
SessionOAuthCallback ==
  OAuthCallbackCall(SessionCap, {"google"}, {Str("code")}, {Str("state")})
SessionLogout == LogoutCall(SessionCap, SessionIdInputs)
SessionCheckSession == CheckSessionCall(SessionCap, SessionIdInputs)
SessionReset == ResetCall(SessionCap)

NextSession ==
  \/ SessionLogin
  \/ SessionTwoFactor
  \/ SessionOAuthCallback
  \/ SessionLogout
  \/ SessionCheckSession
  \/ SessionReset
  \/ Tick

SpecSession == Init /\ [][NextSession]_vars

(***************************************************************************)
(* SpecOAuth: callbacks of two providers, repeated and across reset().     *)
(***************************************************************************)
OAuthCap == [events |-> MaxOAuthEvents, failures |-> 0, ids |-> MaxOAuthId]

OAuthOAuthCallback ==
  OAuthCallbackCall(OAuthCap, ProviderInputs, OAuthCodeInputs, StateInputs)
OAuthLogout == LogoutCall(OAuthCap, SessionIdInputs)
OAuthCheckSession == CheckSessionCall(OAuthCap, {s.id : s \in SeqToSet(state.sessions)})
OAuthReset == ResetCall(OAuthCap)

NextOAuth ==
  \/ OAuthOAuthCallback
  \/ OAuthLogout
  \/ OAuthCheckSession
  \/ OAuthReset

SpecOAuth == Init /\ [][NextOAuth]_vars

(***************************************************************************)
(* SpecEvents: every operation with one accepted and one refused input,    *)
(* over a log long enough for a call to follow the creation of a session.  *)
(***************************************************************************)
EventsCap ==
  [events |-> MaxLogEvents, failures |-> MaxFailures, ids |-> MaxId]

EventsStart == StartCall(EventsCap)
EventsStop == StopCall(EventsCap)
EventsLogin ==
  LoginCall(EventsCap, UserEmails \cup {Str("nobody@x.com")},
            {Str("abcde"), ValidPassword}, {Undefined})
EventsTwoFactor ==
  TwoFactorCall(EventsCap, UserIds, {ValidCode, [code |-> Str(Digits5)]})
EventsPasswordResetRequest ==
  PasswordResetRequestCall(EventsCap, UserEmails \cup {Str("nobody@x.com")})
EventsPasswordResetConfirm ==
  PasswordResetConfirmCall(EventsCap, {Str("invalid-token")})
EventsOAuthCallback ==
  OAuthCallbackCall(EventsCap, {"google"}, {Str("code")}, {Str("state")})
EventsLogout == LogoutCall(EventsCap, SessionIdInputs)
EventsCheckSession == CheckSessionCall(EventsCap, SessionIdInputs)
EventsReset == ResetCall(EventsCap)

NextEvents ==
  \/ EventsStart
  \/ EventsStop
  \/ EventsLogin
  \/ EventsTwoFactor
  \/ EventsPasswordResetRequest
  \/ EventsPasswordResetConfirm
  \/ EventsOAuthCallback
  \/ EventsLogout
  \/ EventsCheckSession
  \/ EventsReset
  \/ Tick

SpecEvents == Init /\ [][NextEvents]_vars

(***************************************************************************)
(* SpecSnapshot: a caller reads the state and the events, changes the      *)
(* arrays it was given, and goes on using the engine.                      *)
(***************************************************************************)
SnapshotCap ==
  [events |-> MaxSnapshotEvents, failures |-> MaxFailures, ids |-> MaxId]

SnapshotLogin == LoginCall(SnapshotCap, UserEmails, {ValidPassword}, {Undefined})
SnapshotLogout == LogoutCall(SnapshotCap, {s.id : s \in SeqToSet(state.sessions)})
SnapshotCheckSession ==
  CheckSessionCall(SnapshotCap, {s.id : s \in SeqToSet(state.sessions)})
SnapshotReset == ResetCall(SnapshotCap)

NextSnapshot ==
  \/ SnapshotLogin
  \/ SnapshotLogout
  \/ SnapshotCheckSession
  \/ SnapshotReset
  \/ GetStateCall
  \/ GetEventsCall
  \/ CallerPush
  \/ CallerPop
  \/ Tick

SpecSnapshot == Init /\ [][NextSnapshot]_vars

(***************************************************************************)
(* Engines constructed with options.config.                                *)
(***************************************************************************)
MaxConfigEvents == 3

\* options.config: nothing, and every feature off with the least limits.
ConfigInputs ==
  {EmptyObj,
   [enable2FA |-> FALSE, enablePasswordReset |-> FALSE, enableOAuth |-> FALSE,
    sessionTimeout |-> 1, maxLoginAttempts |-> 1, lockoutDuration |-> 1]}

ConfigCap ==
  [events |-> MaxConfigEvents, failures |-> MaxConfigEvents, ids |-> MaxId]

ConfigStart == StartCall(ConfigCap)
ConfigLogin ==
  LoginCall(ConfigCap, UserEmails, {Str("abcde"), ValidPassword}, {Undefined})
ConfigTwoFactor == TwoFactorCall(ConfigCap, UserIds, {ValidCode})
ConfigPasswordResetRequest == PasswordResetRequestCall(ConfigCap, UserEmails)
ConfigPasswordResetConfirm ==
  PasswordResetConfirmCall(ConfigCap, {Str("invalid-token")})
ConfigOAuthCallback ==
  OAuthCallbackCall(ConfigCap, {"google"}, {Str("code")}, {Str("state")})
ConfigLogout == LogoutCall(ConfigCap, SessionIdInputs)
ConfigCheckSession == CheckSessionCall(ConfigCap, SessionIdInputs)
ConfigReset == ResetCall(ConfigCap)

InitConfig ==
  /\ \E config \in ConfigInputs :
       \/ ConstructedWith(createDefaultUsers(1), 4, config)
       \/ ConstructedWith(MockUsers, 3, config)
  /\ delayMs = DefaultDelayMs

NextConfig ==
  \/ ConfigStart
  \/ ConfigLogin
  \/ ConfigTwoFactor
  \/ ConfigPasswordResetRequest
  \/ ConfigPasswordResetConfirm
  \/ ConfigOAuthCallback
  \/ ConfigLogout
  \/ ConfigCheckSession
  \/ ConfigReset
  \/ Tick

SpecConfig == InitConfig /\ [][NextConfig]_vars

(***************************************************************************)
(* Repeated logins of one account, more often than config.maxLoginAttempts.*)
(***************************************************************************)
MaxLockoutEvents == 8

LockoutCap ==
  [events |-> MaxLockoutEvents, failures |-> MaxLockoutEvents, ids |-> MaxId]

\* The accounts that log in with a password alone.
PasswordOnlyEmails ==
  {Str(u.email) : u \in {x \in SeqToSet(state.users) : ~x.twoFactorEnabled}}

LockoutLogin ==
  LoginCall(LockoutCap, PasswordOnlyEmails, {Str("abcde"), ValidPassword},
            {Undefined})

NextLockout ==
  \/ LockoutLogin
  \/ Tick

SpecLockout == InitConfig /\ [][NextLockout]_vars

(***************************************************************************)
(* Calls in flight.  Every public operation but reset is an async          *)
(* function: its body runs up to its first await when it is called, and    *)
(* each await hands control back, to resume in a later microtask, in the    *)
(* order the awaited promises settled.  With delayMs = 0 the promise of     *)
(* this.delay() is settled at once; otherwise it settles when its timer     *)
(* fires, and the microtasks that follow a timer all run before the next    *)
(* timer or the next piece of caller code does.  The awaited private        *)
(* methods (validatePassword, validate2FACode, findOrCreateOAuthUser,       *)
(* createSession) are async functions without an await of their own: their *)
(* bodies run in full at the call, and the caller resumes one microtask     *)
(* later.                                                                   *)
(***************************************************************************)
MaxTasks == 2

DelayMsInputs == {0, DefaultDelayMs}

MidFlight == {"afterValidate", "afterFind", "afterCreate"}

\* A call up to its await of this.delay().
NewTask(op, args) ==
  [op |-> op, args |-> args,
   pc |-> IF delayMs > 0 THEN "timer" ELSE "afterDelay",
   user |-> Undefined, session |-> Undefined, threw |-> FALSE,
   valid |-> FALSE, outcome |-> "pending", result |-> Undefined]

\* The call is over: its promise settles with the result or the exception.
Done(t, r) ==
  [m |-> r.m,
   t |-> [t EXCEPT !.pc = "done", !.outcome = r.outcome, !.result = r.result]]

\* The call awaits once more, holding what it has computed so far.
Awaits(m, t) == [m |-> m, t |-> t]

\* simulateLogin from the delay to its second await.
loginAfterDelay(m, t) ==
  LET user == findUserByEmail(m.state, t.args.email)
      threw == PasswordThrows(t.args.password)
  IN IF user = Undefined
     THEN Done(t, simulateLogin(m, t.args))
     ELSE Awaits(m, [t EXCEPT !.pc = "afterValidate", !.user = user,
                              !.threw = threw,
                              !.valid = IF threw THEN FALSE
                                        ELSE validatePassword(user, t.args.password)])

\* simulateLogin from the result of validatePassword to its third await.
loginAfterValidate(m, t) ==
  IF t.threw THEN Done(t, Throw(m, "TypeError"))
  ELSE IF ~t.valid
  THEN Done(t, Return(emitEvent(m, "login-failure", FALSE,
                                [userId |-> t.user.id, email |-> t.args.email],
                                "Invalid password"),
                      [success |-> FALSE, error |-> "Invalid credentials"]))
  ELSE IF requires2FA(m, t.user)
  THEN Done(t, Return(emitEvent(m, "2fa-required", TRUE,
                                [userId |-> t.user.id], ""),
                      [success |-> FALSE, requires2FA |-> TRUE, user |-> t.user,
                       error |-> "Two-factor authentication required"]))
  ELSE LET c == createSession(m, t.user, t.args.rememberMe)
       IN Awaits(c.m, [t EXCEPT !.pc = "afterCreate", !.session = c.session])

\* simulateLogin from the session to its return.
loginAfterCreate(m, t) ==
  Done(t, Return(emitEvent(m, "login-success", TRUE,
                           [userId |-> t.user.id, sessionId |-> t.session.id], ""),
                 [success |-> TRUE, user |-> t.user, session |-> t.session]))

\* simulate2FA from the delay to its second await.
twoFactorAfterDelay(m, t) ==
  LET user == findUserById(m.state, t.args.userId)
      threw == simulate2FACodeThrows(t.args.code)
  IN IF user = Undefined
     THEN Done(t, simulate2FA(m, t.args.userId, t.args.code))
     ELSE Awaits(m, [t EXCEPT !.pc = "afterValidate", !.user = user,
                              !.threw = threw,
                              !.valid = IF threw THEN FALSE
                                        ELSE validate2FACode(user, t.args.code)])

\* simulate2FA from the result of validate2FACode to its third await.
twoFactorAfterValidate(m, t) ==
  IF t.threw THEN Done(t, Throw(m, "TypeError"))
  ELSE IF ~t.valid
  THEN Done(t, Return(emitEvent(m, "2fa-failure", FALSE,
                                [userId |-> t.args.userId], "Invalid 2FA code"),
                      [success |-> FALSE, error |-> "Invalid 2FA code"]))
  ELSE LET c == createSession(m, t.user, Bool(FALSE))
       IN Awaits(c.m, [t EXCEPT !.pc = "afterCreate", !.session = c.session])

\* simulate2FA from the session to its return.
twoFactorAfterCreate(m, t) ==
  Done(t, Return(emitEvent(m, "2fa-success", TRUE,
                           [userId |-> t.args.userId,
                            sessionId |-> t.session.id], ""),
                 [success |-> TRUE, user |-> t.user, session |-> t.session]))

\* simulateOAuthCallback from the delay to its second await.
oauthAfterDelay(m, t) ==
  LET f == findOrCreateOAuthUser(m, t.args)
  IN Awaits(f.m, [t EXCEPT !.pc = "afterFind", !.user = f.user])

\* simulateOAuthCallback from the user to its third await.
oauthAfterFind(m, t) ==
  LET c == createSession(m, t.user, Bool(FALSE))
  IN Awaits(c.m, [t EXCEPT !.pc = "afterCreate", !.session = c.session])

\* simulateOAuthCallback from the session to its return.
oauthAfterCreate(m, t) ==
  Done(t, Return(emitEvent(m, "oauth-callback", TRUE,
                           [userId |-> t.user.id, sessionId |-> t.session.id,
                            provider |-> t.args.provider], ""),
                 [success |-> TRUE, user |-> t.user, session |-> t.session]))

\* The operations whose only await is the delay.
Unawaited(m, t) ==
  CASE t.op = "simulatePasswordResetRequest" ->
         simulatePasswordResetRequest(m, t.args)
    [] t.op = "simulatePasswordResetConfirm" ->
         simulatePasswordResetConfirm(m, t.args)
    [] t.op = "simulateLogout" -> simulateLogout(m, t.args.sessionId)
    [] t.op = "checkSession" -> checkSession(m, t.args.sessionId)

\* The piece of call t that runs when it resumes.
Resume(m, t) ==
  CASE t.op = "simulateLogin" /\ t.pc = "afterDelay" -> loginAfterDelay(m, t)
    [] t.op = "simulateLogin" /\ t.pc = "afterValidate" -> loginAfterValidate(m, t)
    [] t.op = "simulateLogin" /\ t.pc = "afterCreate" -> loginAfterCreate(m, t)
    [] t.op = "simulate2FA" /\ t.pc = "afterDelay" -> twoFactorAfterDelay(m, t)
    [] t.op = "simulate2FA" /\ t.pc = "afterValidate" -> twoFactorAfterValidate(m, t)
    [] t.op = "simulate2FA" /\ t.pc = "afterCreate" -> twoFactorAfterCreate(m, t)
    [] t.op = "simulateOAuthCallback" /\ t.pc = "afterDelay" -> oauthAfterDelay(m, t)
    [] t.op = "simulateOAuthCallback" /\ t.pc = "afterFind" -> oauthAfterFind(m, t)
    [] t.op = "simulateOAuthCallback" /\ t.pc = "afterCreate" -> oauthAfterCreate(m, t)
    [] OTHER -> Done(t, Unawaited(m, t))

\* The emitters of the log after a piece of code run by call id left the
\* engine as m.
Emitted(m, id) ==
  IF "events" \in Assigned(m.writes) THEN <<>>
  ELSE emitters \o [i \in 1..(Len(m.state.events) - Len(emitters)) |-> id]

\* Caller code runs between the microtasks when nothing waits on a timer,
\* and between the timers' tasks otherwise.
CallerRuns == delayMs = 0 \/ queue = <<>>

Ran(m, step) ==
  /\ state' = m.state
  /\ nextId' = m.nextId
  /\ last' = step
  /\ seen' = seen \cup SeqToSet(m.state.users)
  /\ held' = HeldAfter(held, m)
  /\ UNCHANGED <<now, delayMs>>

\* A call of an async operation: it runs up to its await of the delay.
Invoke(op, args) ==
  /\ CallerRuns
  /\ Len(tasks) < MaxTasks
  /\ tasks' = Append(tasks, NewTask(op, args))
  /\ IF delayMs > 0
     THEN timers' = Append(timers, Len(tasks) + 1) /\ UNCHANGED queue
     ELSE queue' = Append(queue, Len(tasks) + 1) /\ UNCHANGED timers
  /\ UNCHANGED <<state, nextId, now, last, seen, held, delayMs, emitters>>

\* The oldest timer fires once the microtasks of the previous task are done.
TimerFires ==
  /\ timers # <<>>
  /\ queue = <<>>
  /\ queue' = <<Head(timers)>>
  /\ timers' = Tail(timers)
  /\ tasks' = [tasks EXCEPT ![Head(timers)].pc = "afterDelay"]
  /\ UNCHANGED <<state, nextId, now, last, seen, held, delayMs, emitters>>

\* The first microtask runs: a call resumes and runs to its next await or to
\* its end.
RunMicrotask ==
  /\ queue # <<>>
  /\ LET id == Head(queue)
         r == Resume(Machine, tasks[id])
     IN /\ Ran(r.m, [op |-> r.t.op, args |-> r.t.args, task |-> id,
                     pc |-> r.t.pc, outcome |-> r.t.outcome,
                     result |-> r.t.result])
        /\ tasks' = [tasks EXCEPT ![id] = r.t]
        /\ queue' = IF r.t.pc = "done" THEN Tail(queue)
                    ELSE Append(Tail(queue), id)
        /\ emitters' = Emitted(r.m, id)
        /\ UNCHANGED timers

\* A call of start, stop or reset: nothing in them awaits, the whole body
\* runs at the call.
SyncCall(op, r) ==
  /\ CallerRuns
  /\ Len(tasks) < MaxTasks
  /\ Ran(r.m, [op |-> op, args |-> EmptyObj, task |-> Len(tasks) + 1,
               pc |-> "done", outcome |-> r.outcome, result |-> r.result])
  /\ tasks' = Append(tasks, Done(NewTask(op, EmptyObj), r).t)
  /\ emitters' = Emitted(r.m, Len(tasks) + 1)
  /\ UNCHANGED <<timers, queue>>

AsyncLogin ==
  \E email \in UserEmails \cup {Str("nobody@x.com")},
     password \in {Str("abcde"), ValidPassword, Null} :
    Invoke("simulateLogin", [email |-> email, password |-> password,
                             rememberMe |-> Undefined])
AsyncTwoFactor ==
  \E userId \in UserIds, code \in {ValidCode, [code |-> Str(Digits5)]} :
    Invoke("simulate2FA", [userId |-> userId, code |-> code])
AsyncPasswordResetRequest ==
  \E email \in UserEmails :
    Invoke("simulatePasswordResetRequest", [email |-> email])
AsyncPasswordResetConfirm ==
  Invoke("simulatePasswordResetConfirm", [token |-> Str("invalid-token")])
AsyncOAuthCallback ==
  Invoke("simulateOAuthCallback",
         [code |-> Str("code"), state |-> Str("state"), provider |-> "google"])
AsyncLogout ==
  \E sessionId \in SessionIdInputs :
    Invoke("simulateLogout", [sessionId |-> sessionId])
AsyncCheckSession ==
  \E sessionId \in SessionIdInputs :
    Invoke("checkSession", [sessionId |-> sessionId])
AsyncStart == SyncCall("start", start(Machine))
AsyncStop == SyncCall("stop", stop(Machine))
AsyncReset == SyncCall("reset", reset(Machine))

InitAsync ==
  /\ Constructed(createDefaultUsers(1), 4) \/ Constructed(MockUsers, 3)
  /\ delayMs \in DelayMsInputs

NextAsync ==
  \/ AsyncLogin
  \/ AsyncTwoFactor
  \/ AsyncPasswordResetRequest
  \/ AsyncPasswordResetConfirm
  \/ AsyncOAuthCallback
  \/ AsyncLogout
  \/ AsyncCheckSession
  \/ AsyncStart
  \/ AsyncStop
  \/ AsyncReset
  \/ RunMicrotask
  \/ TimerFires
  \/ Tick

SpecAsync == InitAsync /\ [][NextAsync]_vars

\* The event loop runs a microtask that is queued, and a timer that is set
\* fires once the queue is empty: neither waits for the caller or for
\* another call.
SpecAsyncFair ==
  SpecAsync /\ WF_vars(RunMicrotask) /\ WF_vars(TimerFires)

(***************************************************************************)
(* The claims.  `last` records the most recent call: its operation, its    *)
(* arguments, whether it returned or threw, its result, the engine state   *)
(* before it (pre) and the clock when it ran (at).  While last.op names a  *)
(* call, `state` is the engine state that call left behind: only Tick can  *)
(* follow without replacing `last`, and Tick changes the clock alone.      *)
(***************************************************************************)
Users(st) == SeqToSet(st.users)
Sessions(st) == SeqToSet(st.sessions)

IsString(x) == x.t = "string"

InvalidCredentials == [success |-> FALSE, error |-> "Invalid credentials"]

KnownEmail(st, email) == \E u \in Users(st) : Str(u.email) = email

\* The call appended exactly these events, in this order.
Appended(events) == state.events = last.pre.events \o events

C2_TwoFactorRequired ==
  last.op = "simulateLogin" =>
    \A u \in Users(last.pre) :
      ( /\ u.twoFactorEnabled
        /\ last.args.email = Str(u.email)
        /\ IsString(last.args.password)
        /\ Len(last.args.password.v) >= 6 )
      => /\ last.outcome = "returned"
         /\ last.result.success = FALSE
         /\ last.result.requires2FA = TRUE
         /\ last.result.user = u
         /\ "session" \notin DOMAIN last.result
         /\ state.sessions = last.pre.sessions

C2_Witness ==
  /\ last.op = "simulateLogin"
  /\ last.outcome = "returned"
  /\ "requires2FA" \in DOMAIN last.result
  /\ \E u \in Users(last.pre) :
       u.twoFactorEnabled /\ last.args.email = Str(u.email)

DecimalDigits == {"0", "1", "2", "3", "4", "5", "6", "7", "8", "9"}

SixDecimalDigits(code) ==
  /\ code # Null
  /\ IsString(code.code)
  /\ Len(code.code.v) = 6
  /\ \A i \in DOMAIN code.code.v : code.code.v[i] \in DecimalDigits

\* The last call returned success with a session of user `id` that it created.
CreatedSessionFor(id) ==
  /\ last.outcome = "returned"
  /\ last.result.success = TRUE
  /\ last.result.user.id = id
  /\ last.result.session.userId = id
  /\ last.result.session \in Sessions(state)
  /\ \A s \in Sessions(last.pre) : s.id # last.result.session.id

LoggedOut(events, id) ==
  \E e \in SeqToSet(events) :
    e.type = "logout" /\ "sessionId" \in DOMAIN e.data /\ e.data.sessionId = id

SessionNotFound == [success |-> FALSE, error |-> "Session not found"]

\* C4 as stated: checkSession on the id of an active session (before its
\* logout) returns success with the same user, and after a successful logout
\* every later checkSession on that id fails with "Session not found".
C4_CheckSucceedsUntilLogout ==
  last.op = "checkSession" =>
    /\ \A s \in Sessions(last.pre) :
         s.id = last.args.sessionId =>
           /\ last.result.success = TRUE
           /\ last.result.user.id = s.userId
    /\ LoggedOut(last.pre.events, last.args.sessionId) =>
         last.result = SessionNotFound

\* C4, amended: checkSession on the id of an active session that has not
\* expired (before its logout) returns success with that session and its
\* user; after a successful logout of the id every later checkSession on it
\* fails with "Session not found".
C4_CheckUnexpiredUntilLogout ==
  last.op = "checkSession" =>
    /\ \A s \in Sessions(last.pre) :
         (s.id = last.args.sessionId /\ s.expiresAt >= last.at) =>
           /\ last.result.success = TRUE
           /\ last.result.session = s
           /\ last.result.user.id = s.userId
           /\ last.result.user \in Users(last.pre)
    /\ LoggedOut(last.pre.events, last.args.sessionId) =>
         last.result = SessionNotFound

C4_Witness ==
  /\ last.op = "checkSession"
  /\ LoggedOut(last.pre.events, last.args.sessionId)
  /\ \E e \in SeqToSet(last.pre.events) :
       e.type = "login-success" /\ e.data.sessionId = last.args.sessionId

SessionExpiredEvent(id) ==
  [type |-> "session-expired", success |-> FALSE, data |-> [sessionId |-> id],
   error |-> "Session expired"]

\* The sequence s without its entries of session id.
Without(s, id) ==
  LET Keep(x) == x.id # id
  IN SelectSeq(s, Keep)

\* C5: checkSession on an active session whose expiresAt is in the past
\* returns failure with error "Session expired", appends a session-expired
\* event and removes that session; no other session is removed.
C5_ExpiredSessionRemoved ==
  last.op = "checkSession" =>
    \A s \in Sessions(last.pre) :
      (s.id = last.args.sessionId /\ s.expiresAt < last.at) =>
        /\ last.outcome = "returned"
        /\ last.result = [success |-> FALSE, error |-> "Session expired"]
        /\ Appended(<<SessionExpiredEvent(s.id)>>)
        /\ s \notin Sessions(state)
        /\ state.sessions = Without(last.pre.sessions, s.id)
        /\ Sessions(state) = Sessions(last.pre) \ {s}
        /\ state.users = last.pre.users

C5_Witness ==
  /\ last.op = "checkSession"
  /\ \E s \in Sessions(last.pre) :
       s.id = last.args.sessionId /\ s.expiresAt < last.at
  /\ state.sessions # <<>>

\* C6: simulateLogout with an id in the active session list removes exactly
\* that session, appends exactly one logout event and returns success; with
\* an id not in the list it returns failure with error "Session not found"
\* and leaves users, sessions and the event log unchanged, so a second
\* logout of the same id fails.
C6_Logout ==
  last.op = "simulateLogout" =>
    LET id == last.args.sessionId
    IN /\ last.outcome = "returned"
       /\ IF \E s \in Sessions(last.pre) : s.id = id
          THEN /\ last.result = [success |-> TRUE]
               /\ state.sessions = Without(last.pre.sessions, id)
               /\ Len(state.sessions) = Len(last.pre.sessions) - 1
               /\ Appended(<<[type |-> "logout", success |-> TRUE,
                              data |-> [sessionId |-> id]]>>)
               /\ state.users = last.pre.users
          ELSE /\ last.result = SessionNotFound
               /\ state = last.pre
       /\ LoggedOut(last.pre.events, id) => last.result = SessionNotFound

C6_Witness ==
  /\ last.op = "simulateLogout"
  /\ LoggedOut(last.pre.events, last.args.sessionId)
  /\ last.result = SessionNotFound

IsEmptyOrMissing(x) == x = Str("") \/ x = Null \/ x = Undefined

\* C9 as stated: simulateLogin never throws for empty or missing credential
\* fields: with the password or the email empty, null or absent the call
\* returns a failure result.
C9_NeverThrows ==
  ( /\ last.op = "simulateLogin"
    /\ IsEmptyOrMissing(last.args.email) \/ IsEmptyOrMissing(last.args.password) )
  => /\ last.outcome = "returned"
     /\ last.result.success = FALSE

\* C10: a session's expiresAt is its creation time plus 30 days when
\* simulateLogin with rememberMe = true created it, and its creation time
\* plus 30 minutes in every other case (simulateLogin without rememberMe,
\* simulate2FA, simulateOAuthCallback).
C10_SessionLifetime ==
  /\ \A s \in Sessions(state) :
       s.expiresAt - s.createdAt \in {RememberMeLifetime, DefaultLifetime}
  /\ ( /\ last.op \in {"simulateLogin", "simulate2FA", "simulateOAuthCallback"}
       /\ last.outcome = "returned"
       /\ "session" \in DOMAIN last.result )
     => LET s == last.result.session
        IN /\ s.createdAt = last.at
           /\ s.expiresAt =
                s.createdAt
                  + (IF last.op = "simulateLogin" /\ last.args.rememberMe = Bool(TRUE)
                     THEN RememberMeLifetime
                     ELSE DefaultLifetime)

C10_Witness ==
  /\ last.op = "simulateLogin"
  /\ last.args.rememberMe = Bool(TRUE)
  /\ last.outcome = "returned"
  /\ last.result.success = TRUE
  /\ last.at > 0
  /\ \E s \in Sessions(state) : s.expiresAt - s.createdAt = DefaultLifetime

ResetRequested(data) ==
  [type |-> "password-reset-requested", success |-> TRUE, data |-> data]

GeneratedTokens(events) ==
  {IdString(events[i].data.resetToken) :
     i \in {j \in DOMAIN events : "resetToken" \in DOMAIN events[j].data}}

OAuthUsers(users, provider) == {u \in users : u.email = OAuthEmail(provider)}

\* What a callback does given the users `known` to exist for its provider:
\* with none it adds exactly one user, with the provider's email and without
\* 2FA, and returns it; otherwise it returns the known user and adds none.
ResolvesAgainst(known) ==
  IF known = {}
  THEN /\ state.users = last.pre.users \o <<last.result.user>>
       /\ last.result.user \notin Users(last.pre)
       /\ last.result.user.email = OAuthEmail(last.args.provider)
       /\ ~last.result.user.twoFactorEnabled
  ELSE /\ known = {last.result.user}
       /\ state.users = last.pre.users

\* C14 as stated: the first callback for a provider adds exactly one user
\* with email oauth-P@example.com and twoFactorEnabled = false, and every
\* later callback for the provider returns that same user and adds no user.
\* The first callback is the one before which no user of the provider was
\* ever in the user list.
C14_OAuthUserIdempotent ==
  last.op = "simulateOAuthCallback" =>
    ResolvesAgainst(OAuthUsers(last.seen, last.args.provider))

\* C14, amended: a callback for a provider whose user is not in the user list
\* adds exactly one user with email oauth-P@example.com and
\* twoFactorEnabled = false; a callback for a provider whose user is in the
\* list returns that user and adds none.
C14_OAuthUserIdempotentInList ==
  last.op = "simulateOAuthCallback" =>
    ResolvesAgainst(OAuthUsers(Users(last.pre), last.args.provider))

C14_Witness ==
  /\ last.op = "simulateOAuthCallback"
  /\ last.result.user \in Users(last.pre)
  /\ \E u \in Users(last.pre) :
       u.email \in {OAuthEmail(p) : p \in ProviderInputs} /\ u # last.result.user

\* The operations that can change the engine.
PublicOps ==
  {"start", "stop", "simulateLogin", "simulate2FA",
   "simulatePasswordResetRequest", "simulatePasswordResetConfirm",
   "simulateOAuthCallback", "simulateLogout", "checkSession", "reset"}

IsPrefix(s, t) == Len(s) <= Len(t) /\ SubSeq(t, 1, Len(s)) = s

\* The events the last call left at the end of the log.
NewEvents == SubSeq(state.events, Len(last.pre.events) + 1, Len(state.events))

\* The last call changed users, sessions or the running flag.
ChangedState ==
  \/ state.users # last.pre.users
  \/ state.sessions # last.pre.sessions
  \/ state.isRunning # last.pre.isRunning

EventWrites ==
  {i \in DOMAIN last.writes : last.writes[i] = [field |-> "events", kind |-> "push"]}

\* The last write of the call is the push of an event.
EventWrittenLast == Len(last.writes) \in EventWrites

C17_AppendOnly ==
  last.op \in PublicOps => IsPrefix(last.pre.events, state.events)

\* C17, amended: for every public operation other than reset() the event log
\* before the operation is a prefix of the event log after it; reset()
\* empties the log.
C17_AppendOnlyUntilReset ==
  /\ last.op \in PublicOps \ {"reset"} => IsPrefix(last.pre.events, state.events)
  /\ last.op = "reset" => state.events = <<>>

C17_Witness ==
  /\ last.op = "checkSession"
  /\ last.pre.events # <<>>
  /\ Len(state.events) > Len(last.pre.events)

CallerOps == {"push", "pop"}

\* C19 as stated: the arrays getState() returns are copies: adding or
\* removing entries of the returned users, sessions or events array does not
\* change the engine's state, and later engine operations do not change a
\* snapshot that was returned before them.
C19_GetStateReturnsCopies ==
  /\ (last.op \in CallerOps /\ last.held.from = "getState") => state = last.pre
  /\ (last.op \in PublicOps /\ last.held.from = "getState") =>
       \A f \in ArrayFields : held.arrays[f].items = last.held.arrays[f].items

\* C20: getEvents() is a pure read returning a copy: it returns the events of
\* the log in append order and changes no state, two calls with no operation
\* in between return equal sequences, and adding or removing entries of the
\* returned array does not change the engine's event log.
C20_GetEventsPureCopy ==
  [][ /\ last'.op = "getEvents" =>
          /\ last'.outcome = "returned"
          /\ last'.result.items = state.events
          /\ state' = state
          /\ nextId' = nextId
      /\ (last.op = "getEvents" /\ last'.op = "getEvents") =>
          last'.result.items = last.result.items
      /\ (last' # last /\ last'.op \in CallerOps /\ held.from = "getEvents") =>
          state' = state
    ]_vars

C20_Witness ==
  /\ last.op = "pop"
  /\ last.held.from = "getEvents"
  /\ last.pre.events # <<>>
  /\ last.held.arrays.events.items = last.pre.events
  /\ held.arrays.events.items # state.events

\* The calls between two of their awaits past the delay.
Suspended == {a \in DOMAIN tasks : tasks[a].pc \in MidFlight}

\* The calls of the operations that await the delay.
Delayed == {a \in DOMAIN tasks : tasks[a].op \notin {"start", "stop", "reset"}}

\* C21: an operation that has passed its delay runs to its end as one step:
\* while a call is between its lookup and its last event, the engine has run
\* no piece of another call and no reset since that call's own last piece.
C21_AtomicAfterDelay == \A a \in Suspended : last.task = a

\* C22: with delayMs = 0 the events of a call invoked earlier all precede the
\* events of a call invoked later.
C22_EmissionFollowsCallOrder ==
  delayMs = 0 =>
    \A i, j \in DOMAIN emitters :
      (i < j /\ {emitters[i], emitters[j]} \subseteq Delayed)
        => emitters[i] <= emitters[j]

\* C23: the engine is not running after construction; a call of start leaves
\* it running and a call of stop not running, whatever it was before, and each
\* of them appends one event and leaves users and sessions alone; no other
\* call changes the flag, so that it tells which of start and stop was called
\* last.
C23_RunningFollowsStartStop ==
  /\ last.op = "constructor" => state.isRunning = FALSE
  /\ last.op \in {"start", "stop"} =>
       /\ state.isRunning = (last.op = "start")
       /\ Len(state.events) = Len(last.pre.events) + 1
       /\ IsPrefix(last.pre.events, state.events)
       /\ state.users = last.pre.users
       /\ state.sessions = last.pre.sessions
  /\ last.op \notin {"constructor", "start", "stop"} =>
       state.isRunning = last.pre.isRunning

C23_Witness ==
  /\ last.op = "start"
  /\ last.pre.isRunning
  /\ Len(state.events) = 3

\* The engine in its present state but for the running flag, which is the
\* opposite.
OtherRunning == [Machine EXCEPT !.state.isRunning = ~@]

\* C24: no operation looks at the running flag: called with the same
\* arguments on two engines that differ in isRunning only, an operation has
\* the same outcome and result and leaves the same users, sessions and
\* events, and each engine's flag as it was.
C24_RunningFlagNotChecked ==
  \A op \in DelayedOps : \A args \in ArgsOf(op) :
    LET here == Call(Machine, op, args)
        there == Call(OtherRunning, op, args)
    IN /\ there.outcome = here.outcome
       /\ there.result = here.result
       /\ there.m.state.users = here.m.state.users
       /\ there.m.state.sessions = here.m.state.sessions
       /\ there.m.state.events = here.m.state.events
       /\ there.m.state.isRunning = ~here.m.state.isRunning
       /\ here.m.state.isRunning = state.isRunning

\* A login creates a session on an engine that was stopped.
C24_Witness ==
  /\ last.op = "simulateLogin"
  /\ last.result.success
  /\ ~last.pre.isRunning
  /\ \E i \in DOMAIN last.pre.events : last.pre.events[i].type = "logout"
  /\ Len(state.sessions) = Len(last.pre.sessions) + 1

\* C25: reset leaves the three default users of a fresh engine (under new
\* ids), no session and no event, whatever users the engine had, and leaves
\* the running flag and the configuration as they were.
C25_ResetFrame ==
  last.op = "reset" =>
    /\ Len(state.users) = 3
    /\ \A i \in 1..3 :
         [state.users[i] EXCEPT !.id = 0] = [createDefaultUsers(1)[i] EXCEPT !.id = 0]
    /\ state.sessions = <<>>
    /\ state.events = <<>>
    /\ state.isRunning = last.pre.isRunning
    /\ state.config = last.pre.config

\* reset of an engine that was built with mockUsers and another
\* configuration and has a user created by an OAuth callback, and a session.
C25_Witness ==
  /\ last.op = "reset"
  /\ last.pre.config # DefaultConfig
  /\ Len(last.pre.users) = Len(MockUsers) + 1
  /\ SubSeq(last.pre.users, 1, Len(MockUsers)) = MockUsers
  /\ last.pre.sessions # <<>>

\* The users of the list with two-factor authentication switched on.
TwoFactorUsers(users) == {i \in DOMAIN users : users[i].twoFactorEnabled}

\* C26: an engine constructed without mockUsers has three users, two of them
\* without two-factor authentication and one, admin@example.com, with it; a
\* login of john@example.com with a password of six characters succeeds.
C26_DefaultUsers ==
  /\ (last.op = "constructor" /\ state.users # MockUsers) =>
       /\ Len(state.users) = 3
       /\ Cardinality(TwoFactorUsers(state.users)) = 1
       /\ \A i \in TwoFactorUsers(state.users) :
            state.users[i].email = "admin@example.com"
  /\ (/\ last.op = "simulateLogin"
      /\ last.args.email = Str("john@example.com")
      /\ last.args.password = ValidPassword
      /\ \E i \in DOMAIN last.pre.users :
           last.pre.users[i].email = "john@example.com") =>
       /\ last.outcome = "returned"
       /\ last.result.success
       /\ "session" \in DOMAIN last.result

\* The engine in its present state but for the configuration, which is the
\* one an engine constructed with options.config = config has.
Configured(config) == [Machine EXCEPT !.state.config = config @@ DefaultConfig]

\* C27: no operation looks at the configuration: called with the same
\* arguments on two engines that differ in config only, an operation has the
\* same outcome and result (the session and its lifetime included) and leaves
\* the same users, sessions and events, and each engine's config as it was.
C27_ConfigNotChecked ==
  \A config \in {c \in ConfigInputs : c @@ DefaultConfig # state.config} :
  \A op \in DelayedOps : \A args \in ArgsOf(op) :
    LET here == Call(Machine, op, args)
        there == Call(Configured(config), op, args)
    IN /\ there.outcome = here.outcome
       /\ there.result = here.result
       /\ there.m.state.users = here.m.state.users
       /\ there.m.state.sessions = here.m.state.sessions
       /\ there.m.state.events = here.m.state.events
       /\ there.m.state.config = config @@ DefaultConfig
       /\ here.m.state.config = state.config

\* With enable2FA and enableOAuth off, a user with two-factor authentication
\* has been asked for the second factor, or an OAuth callback has created a
\* session of thirty minutes although sessionTimeout is 1.
C27_Witness ==
  /\ ~state.config.enable2FA
  /\ ~state.config.enableOAuth
  /\ state.config.sessionTimeout = 1
  /\ \/ /\ last.op = "simulateLogin"
        /\ "requires2FA" \in DOMAIN last.result
     \/ /\ last.op = "simulateOAuthCallback"
        /\ last.result.success
        /\ last.result.session.expiresAt = last.at + DefaultLifetime

NotLoginFailure(e) == e.type # "login-failure"

\* The engine in its present state but for the log, which is without its
\* login-failure events.
Forgiven == [Machine EXCEPT !.state.events = SelectSeq(@, NotLoginFailure)]

\* The failed logins of the account that end the log.
TrailingFailures(events, email) ==
  {i \in DOMAIN events :
     \A j \in i..Len(events) :
       /\ events[j].type = "login-failure"
       /\ events[j].data.email = email}

\* C28: failed logins lock nothing: a login with a password of six characters
\* has the outcome, the result and the session it would have had the log no
\* login-failure event, however many it has; and a failed login adds one
\* login-failure event to the log and nothing else to the engine.
C28_NoLockout ==
  /\ \A email \in UserEmails :
       LET args == [email |-> email, password |-> ValidPassword,
                    rememberMe |-> Undefined]
           here == simulateLogin(Machine, args)
           there == simulateLogin(Forgiven, args)
       IN /\ here.outcome = there.outcome
          /\ here.result = there.result
          /\ here.m.state.users = there.m.state.users
          /\ here.m.state.sessions = there.m.state.sessions
          /\ SelectSeq(here.m.state.events, NotLoginFailure) = there.m.state.events
  /\ (/\ last.op = "simulateLogin"
      /\ last.outcome = "returned"
      /\ ~last.result.success
      /\ "requires2FA" \notin DOMAIN last.result) =>
       /\ Len(NewEvents) = 1
       /\ NewEvents[1].type = "login-failure"
       /\ IsPrefix(last.pre.events, state.events)
       /\ state.users = last.pre.users
       /\ state.sessions = last.pre.sessions

\* A login succeeds after more failed logins in a row than the default
\* maxLoginAttempts.
C28_Witness ==
  /\ last.op = "simulateLogin"
  /\ last.result.success
  /\ "session" \in DOMAIN last.result
  /\ state.config = DefaultConfig
  /\ Cardinality(TrailingFailures(last.pre.events, last.args.email))
       > state.config.maxLoginAttempts

\* The active sessions of the user.
SessionsOf(sessions, userId) ==
  {i \in DOMAIN sessions : sessions[i].userId = userId}

\* C29: a user can have several sessions at a time: a successful login adds
\* its session to the active ones and removes none, the ids of the active
\* sessions are pairwise different, checkSession succeeds for each active
\* session that has not expired, and a logout removes the one session it
\* names and leaves the others.
C29_SeveralSessions ==
  /\ \A i, j \in DOMAIN state.sessions :
       i # j => state.sessions[i].id # state.sessions[j].id
  /\ \A i \in DOMAIN state.sessions :
       state.sessions[i].expiresAt >= now =>
         LET r == checkSession(Machine, state.sessions[i].id)
         IN /\ r.outcome = "returned"
            /\ r.result.success
            /\ r.result.session = state.sessions[i]
            /\ r.m.state.sessions = state.sessions
  /\ (last.op = "simulateLogin" /\ last.outcome = "returned"
        /\ last.result.success) =>
       state.sessions = Append(last.pre.sessions, last.result.session)
  /\ (last.op = "simulateLogout" /\ last.result.success) =>
       /\ Len(state.sessions) = Len(last.pre.sessions) - 1
       /\ state.sessions =
            SelectSeq(last.pre.sessions, LAMBDA s : s.id # last.args.sessionId)

\* One of two sessions of a user has been logged out, the other is
\* active and has not expired.
C29_Witness ==
  /\ last.op = "simulateLogout"
  /\ last.result.success
  /\ \E u \in UserIds :
       /\ Cardinality(SessionsOf(last.pre.sessions, u)) = 2
       /\ Cardinality(SessionsOf(state.sessions, u)) = 1
       /\ \A i \in SessionsOf(state.sessions, u) :
            state.sessions[i].expiresAt >= now

\* The last call returned a result with success = false.
Failed ==
  /\ last.op \in DelayedOps
  /\ last.outcome = "returned"
  /\ ~last.result.success

SessionExpired == last.op = "checkSession" /\ last.result.error = "Session expired"

C31_ResetRequestReturnsToken ==
  (/\ last.op = "simulatePasswordResetRequest"
   /\ KnownEmail(last.pre, last.args.email)) =>
    /\ last.outcome = "returned"
    /\ "token" \in DOMAIN last.result
    /\ last.result.token \in GeneratedTokens(NewEvents)

\* C32: simulatePasswordResetConfirm with a token that no reset request has
\* generated returns success = false and an error message.
C32_ResetConfirmRejectsUnknownToken ==
  (/\ last.op = "simulatePasswordResetConfirm"
   /\ last.args.token \notin GeneratedTokens(last.pre.events)) =>
    /\ last.outcome = "returned"
    /\ ~last.result.success
    /\ "error" \in DOMAIN last.result

\* C33: simulateOAuthCallback with an invalid state value returns
\* success = false and an error message and creates no session.
C33_OAuthRejectsInvalidState ==
  (/\ last.op = "simulateOAuthCallback"
   /\ last.args.state = Str("invalid-state")) =>
    /\ last.outcome = "returned"
    /\ ~last.result.success
    /\ "error" \in DOMAIN last.result
    /\ state.sessions = last.pre.sessions

\* C34: every active session belongs to a user of the user list, whatever
\* the interleaving of the calls, a reset between the user lookup and the
\* session creation of a login, 2FA or OAuth call included; so checkSession
\* of an active session does not answer "User not found".
C34_SessionsHaveUsers ==
  \A i \in DOMAIN state.sessions :
    /\ \E j \in DOMAIN state.users : state.users[j].id = state.sessions[i].userId
    /\ LET r == checkSession(Machine, state.sessions[i].id).result
       IN "error" \in DOMAIN r => r.error # "User not found"

\* C35: no two users of the list have the same email, under any interleaving
\* of the calls; OAuth callbacks of one provider that overlap find or create
\* one and the same user (of one and the same user list: no reset is among
\* the calls).
C35_EmailsUnique ==
  /\ \A i, j \in DOMAIN state.users :
       i # j => state.users[i].email # state.users[j].email
  /\ \A a, b \in DOMAIN tasks :
       (/\ \A c \in DOMAIN tasks : tasks[c].op # "reset"
        /\ tasks[a].op = "simulateOAuthCallback"
        /\ tasks[b].op = "simulateOAuthCallback"
        /\ tasks[a].args.provider = tasks[b].args.provider
        /\ tasks[a].user # Undefined
        /\ tasks[b].user # Undefined) => tasks[a].user = tasks[b].user

\* Two OAuth callbacks of a new provider have run in turns, each a piece at a
\* time, and returned the same user.
C35_Witness ==
  /\ Len(tasks) = 2
  /\ \A a \in DOMAIN tasks :
       /\ tasks[a].op = "simulateOAuthCallback"
       /\ tasks[a].pc = "done"
       /\ tasks[a].result.success
  /\ tasks[1].result.user = tasks[2].result.user
  /\ emitters = <<1, 2, 1, 2>>
  /\ Len(state.users) = Len(MockUsers) + 1

SuccessTypes == {"login-success", "2fa-success", "oauth-callback"}

\* The session-created event of the session that event i of the log carries.
CreatedBefore(events, i) ==
  {j \in 1..(i - 1) :
     /\ events[j].type = "session-created"
     /\ events[j].data.sessionId = events[i].data.sessionId}

\* C36: a login-success, 2fa-success or oauth-callback event of the log is
\* preceded in the log by the session-created event of its session; where
\* the call that emitted it also emitted the entry before it, that entry is
\* the session-created event.
C36_SessionCreatedPrecedes ==
  \A i \in DOMAIN state.events :
    state.events[i].type \in SuccessTypes =>
      /\ CreatedBefore(state.events, i) # {}
      /\ (i > 1 /\ emitters[i - 1] = emitters[i]) =>
           (i - 1) \in CreatedBefore(state.events, i)

\* The events of the log that tell of a session created, logged out, and
\* removed at its expiry.
CreatedEvents(events) ==
  {i \in DOMAIN events : events[i].type = "session-created"}

LoggedOutEvents(events) ==
  {i \in DOMAIN events :
     events[i].type = "logout" /\ "sessionId" \in DOMAIN events[i].data}

ExpiredEvents(events) ==
  {i \in DOMAIN events :
     /\ events[i].type = "session-expired"
     /\ events[i].error = "Session expired"}

\* C37: the number of active sessions is the number of session-created
\* events of the log, less the logout events that carry a session id, less
\* the session-expired events with the error "Session expired".
C37_SessionsCounted ==
  Len(state.sessions) =
    Cardinality(CreatedEvents(state.events))
      - Cardinality(LoggedOutEvents(state.events))
      - Cardinality(ExpiredEvents(state.events))

\* A session is active, with the logout event of a call of stop in the
\* log.
C37_Witness ==
  /\ \E i \in DOMAIN state.events :
       state.events[i].type = "logout" /\ i \notin LoggedOutEvents(state.events)
  /\ CreatedEvents(state.events) # {}
  /\ Len(state.sessions) = 1

\* The sessions that had expired when the last call was made, and those of
\* them the call removed.
ExpiredBefore ==
  IF last.op = "constructor" THEN {}
  ELSE {x \in Sessions(last.pre) : x.expiresAt < last.at}

Swept == {x \in ExpiredBefore : x \notin Sessions(state)}

NamedByCall(x) ==
  /\ last.op \in {"checkSession", "simulateLogout"}
  /\ last.args.sessionId = x.id

\* A logout of a session that has expired succeeds and emits a logout event.
LogoutIgnoresExpiry ==
  (/\ last.op = "simulateLogout"
   /\ \E x \in ExpiredBefore : x.id = last.args.sessionId) =>
    /\ last.result = [success |-> TRUE]
    /\ Appended(<<[type |-> "logout", success |-> TRUE,
                   data |-> [sessionId |-> last.args.sessionId]]>>)

Named == {x \in Sessions(last.pre) : x.id = last.args.sessionId}

\* C39: checkSession of an active session that has not expired returns
\* success with the session and its user and leaves users, sessions and the
\* log as they were; checkSession of an id that is not active appends one
\* session-expired event with success = false and the error "Session not
\* found", returns that failure and changes nothing else.
C39_CheckSessionFrame ==
  last.op = "checkSession" =>
    /\ state.users = last.pre.users
    /\ IF Named = {}
       THEN /\ last.result = [success |-> FALSE, error |-> "Session not found"]
            /\ state.sessions = last.pre.sessions
            /\ Appended(<<[type |-> "session-expired", success |-> FALSE,
                           data |-> [sessionId |-> last.args.sessionId],
                           error |-> "Session not found"]>>)
       ELSE (\A x \in Named : x.expiresAt >= last.at) =>
              /\ last.result.success
              /\ last.result.session \in Named
              /\ last.result.user \in Users(last.pre)
              /\ last.result.user.id = last.result.session.userId
              /\ state.sessions = last.pre.sessions
              /\ state.events = last.pre.events

\* checkSession of an id that is not active, while a session is active.
C39_Witness ==
  /\ last.op = "checkSession"
  /\ Named = {}
  /\ state.sessions # <<>>
  /\ Len(state.events) = Len(last.pre.events) + 1

\* The promise of every call settles, whatever the other calls do.
CallsSettle ==
  \A a \in 1..MaxTasks :
    [](a \in DOMAIN tasks => <>(a \in DOMAIN tasks /\ tasks[a].pc = "done"))

\* C40: every call completes by returning its result (the promise of no
\* call is left pending and none is rejected).
C40_CallsReturn ==
  \A a \in DOMAIN tasks : tasks[a].pc = "done" => tasks[a].outcome = "returned"

====
